---- MODULE Spec2Model ----
(***************************************************************************)
(* Model of aphrodite/modeling/loader.py: the architecture registry, the   *)
(* quantization support table, the default-dtype context manager and       *)
(* get_model, executed statement by statement by each calling thread.      *)
(***************************************************************************)
EXTENDS Integers, Sequences, FiniteSets, TLC

\* ------------------------------------------------------------------ bounds
\* Longest hf_config.architectures list that is enumerated.
MaxArchs == 2
\* max_tokens arguments are drawn from 1..MaxTokens.
MaxTokens == 2

\* ------------------------------------------------------- values and inputs
\* Python's None, for the optional objects (quant_config, model, error).
None == [tag |-> "None"]

\* The model classes imported by loader.py.
LlamaForCausalLM == "aphrodite.modeling.models.llama.LlamaForCausalLM"
MistralForCausalLM == "aphrodite.modeling.models.mistral.MistralForCausalLM"
GPTJForCausalLM == "aphrodite.modeling.models.gpt_j.GPTJForCausalLM"
GPTNeoXForCausalLM == "aphrodite.modeling.models.gpt_neox.GPTNeoXForCausalLM"
YiForCausalLM == "aphrodite.modeling.models.yi.YiForCausalLM"

MODEL_REGISTRY ==
    ("LlamaForCausalLM" :> LlamaForCausalLM) @@
    ("LLaMAForCausalLM" :> LlamaForCausalLM) @@
    ("GPTJForCausalLM" :> GPTJForCausalLM) @@
    ("GPTNeoXForCausalLM" :> GPTNeoXForCausalLM) @@
    ("MistralForCausalLM" :> MistralForCausalLM) @@
    ("YiForCausalLM" :> YiForCausalLM)

\* list(_MODEL_REGISTRY.keys()), in insertion order.
RegistryKeys ==
    <<"LlamaForCausalLM", "LLaMAForCausalLM", "GPTJForCausalLM",
      "GPTNeoXForCausalLM", "MistralForCausalLM", "YiForCausalLM">>

MODEL_CLASSES_SUPPORT_QUANTIZATION ==
    ("awq" :> <<LlamaForCausalLM, MistralForCausalLM, YiForCausalLM>>) @@
    ("gptq" :> <<LlamaForCausalLM, GPTJForCausalLM, GPTNeoXForCausalLM,
                 MistralForCausalLM, YiForCausalLM>>)

\* Python's "x in list".
InList(x, list) == \E i \in 1..Len(list) : list[i] = x

\* Architecture names a configuration may list: the two Llama spellings, a
\* class that supports gptq but not awq, and a name the registry lacks.
ArchNames ==
    {"LlamaForCausalLM", "LLaMAForCausalLM", "GPTJForCausalLM", "FooForCausalLM"}

SeqsUpTo(S, n) == UNION {[1..k -> S] : k \in 0..n}

\* hf_config objects: without an "architectures" attribute, or with a list.
HfConfigs ==
    {[tag |-> "PretrainedConfig"]} \cup
    {[tag |-> "PretrainedConfig", architectures |-> a] :
        a \in SeqsUpTo(ArchNames, MaxArchs)}

\* model_config.quantization: None, a method of the table, or another string.
Quantizations == {"None", "awq", "gptq", "squeezellm"}

\* torch dtypes; torch.set_default_dtype accepts floating point types only.
FloatDtypes == {"float16", "bfloat16", "float32"}
Dtypes == FloatDtypes \cup {"int8"}

LoadFormats == {"dummy", "auto", "safetensors"}

ModelConfigs ==
    [hf_config : HfConfigs, quantization : Quantizations, dtype : Dtypes,
     load_format : LoadFormats, model : {"model"},
     download_dir : {"download_dir"}, revision : {"revision"}]

\* What get_quant_config may return for a method.
QuantConfigs(method) ==
    [tag : {"QuantizationConfig"}, method : {method},
     min_capability : {60, 80},
     supported_act_dtypes : {{"float16"}, {"float16", "bfloat16"}}]

\* What torch.cuda.get_device_capability may return: (major, minor).
DeviceCapabilities == {<<6, 0>>, <<7, 5>>, <<8, 0>>}

Threads == {"t1", "t2"}

\* ------------------------------------------------------------------- state
\* default_dtype: torch's process-wide default dtype.
\* frame[t]: the get_model call of thread t: its statement (pc), arguments and
\*   locals, the exception or module it ended with, and the history fields
\*   log (the operations it invoked, in order), raised_at (the statement that
\*   raised), entry_dtype (the default dtype when it was called) and
\*   started_after (the threads whose call was over when it was called).
VARIABLES default_dtype, frame

vars == <<default_dtype, frame>>

IdleFrame ==
    [pc |-> "idle", model_config |-> None, max_tokens |-> 0,
     model_class |-> "None", quant_config |-> None,
     device_capability |-> <<>>, capability |-> 0,
     supported_dtypes |-> {}, old_dtype |-> "None", model |-> None,
     error |-> None, raised_at |-> "None", result |-> None,
     log |-> <<>>, entry_dtype |-> "None", started_after |-> {}]

Init ==
    /\ default_dtype \in FloatDtypes
    /\ frame = [t \in Threads |-> IdleFrame]

\* Mutant: the failing statement is tried again instead of ending the call.
RaiseFrom_Retry(f, error, log) == [f EXCEPT !.log = f.log \o log]

\* The call ends by raising `error` out of get_model at f's statement, which
\* invoked the operations in `log`.
RaiseFrom(f, error, log) ==
    [f EXCEPT !.pc = "raised", !.error = error, !.raised_at = f.pc,
              !.log = f.log \o log]

\* ---------------------------------------------------------- pure functions
\* getattr(config, "architectures", []).
GetArchitectures(config) ==
    IF "architectures" \in DOMAIN config THEN config.architectures ELSE <<>>

\* The loop of _get_model_architecture: the class of the first listed name
\* that is a key of the registry, "None" when the loop ends without one.
RECURSIVE FirstRegistered(_)
FirstRegistered(architectures) ==
    IF architectures = <<>> THEN "None"
    ELSE IF Head(architectures) \in DOMAIN MODEL_REGISTRY
         THEN MODEL_REGISTRY[Head(architectures)]
         ELSE FirstRegistered(Tail(architectures))

\* Mutant: an unknown architecture falls back to the Llama class instead of
\* raising.
get_model_architecture_Fallback(config) ==
    LET found == FirstRegistered(GetArchitectures(config))
    IN  [raised |-> FALSE,
         value |-> IF found # "None" THEN found ELSE LlamaForCausalLM]

\* Mutant: the loop keeps going and the last registered name wins.
RECURSIVE LastRegistered(_)
LastRegistered(architectures) ==
    IF architectures = <<>> THEN "None"
    ELSE LET later == LastRegistered(Tail(architectures))
         IN  IF later # "None" THEN later
             ELSE IF Head(architectures) \in DOMAIN MODEL_REGISTRY
                  THEN MODEL_REGISTRY[Head(architectures)]
                  ELSE "None"

get_model_architecture_LastMatch(config) ==
    LET architectures == GetArchitectures(config)
        found == LastRegistered(architectures)
    IN  IF found # "None"
        THEN [raised |-> FALSE, value |-> found]
        ELSE [raised |-> TRUE,
              error |-> [kind |-> "UnsupportedArchitecture",
                         type |-> "ValueError",
                         architectures |-> architectures,
                         supported |-> RegistryKeys]]

\* _get_model_architecture(config): the class returned, or the ValueError.
get_model_architecture(config) ==
    LET architectures == GetArchitectures(config)
        found == FirstRegistered(architectures)
    IN  IF found # "None"
        THEN [raised |-> FALSE, value |-> found]
        ELSE [raised |-> TRUE,
              error |-> [kind |-> "UnsupportedArchitecture",
                         type |-> "ValueError",
                         architectures |-> architectures,
                         supported |-> RegistryKeys]]

\* Mutant: the class is looked up in the gptq list whatever the method.
SupportsQuantization_Gptq(model_class, quantization) ==
    InList(model_class, MODEL_CLASSES_SUPPORT_QUANTIZATION["gptq"])

\* Mutant: every class counts as supporting every method.
SupportsQuantization_Always(model_class, quantization) == TRUE

\* The test of lines 58-59 and 84-86 (the table is indexed first).
SupportsQuantization(model_class, quantization) ==
    InList(model_class, MODEL_CLASSES_SUPPORT_QUANTIZATION[quantization])

\* capability[0] * 10 + capability[1].
CapabilityScalar(capability) == capability[1] * 10 + capability[2]

\* Mutant: a capability equal to the minimum is rejected too.
CapabilityTooLow_OrEqual(capability, quant_config) ==
    capability <= quant_config.min_capability

\* capability < quant_config.get_min_capability().
CapabilityTooLow(capability, quant_config) ==
    capability < quant_config.min_capability

\* Mutant: any floating point dtype is accepted.
DtypeNotSupported_Float(dtype, supported_dtypes) == dtype \notin FloatDtypes

\* model_config.dtype not in supported_dtypes.
DtypeNotSupported(dtype, supported_dtypes) == dtype \notin supported_dtypes

\* Mutant: "auto" takes the dummy path as well.
IsDummyLoad_Auto(load_format) == load_format \in {"dummy", "auto"}

\* model_config.load_format == "dummy".
IsDummyLoad(load_format) == load_format = "dummy"

\* The default dtype left behind when an exception leaves the with block:
\* the generator has no try/finally, so the statement after its yield is
\* skipped and the default stays as it is.
DefaultAfterException(current, old_dtype) == current

\* model_class(hf_config[, quant_config]): a module in training mode whose
\* parameters are empty tensors of the current default dtype, on the host.
NewModule(model_class, hf_config, quant_config, dtype) ==
    [tag |-> "Module", cls |-> model_class, hf_config |-> hf_config,
     quant_config |-> quant_config, param_dtype |-> dtype,
     weights |-> "empty", device |-> "cpu", load_args |-> None,
     post_init |-> 0, training |-> TRUE]

\* Mutant: the module is returned as it is.
ModuleEval_Identity(model) == model

\* nn.Module.eval(): the same module with training switched off.
ModuleEval(model) == [model EXCEPT !.training = FALSE]

\* Mutant: the dtype check of lines 74-79 is made after the module has been
\* constructed.
NextStatement_CheckDtypeLate(pc, model_config) ==
    CASE pc = "call" -> "resolve"
      [] pc = "resolve" -> "quant_support"
      [] pc = "quant_support" ->
            IF model_config.quantization # "None"
            THEN "get_quant_config" ELSE "get_default_dtype"
      [] pc = "get_quant_config" -> "get_capability"
      [] pc = "get_capability" -> "check_capability"
      [] pc = "check_capability" -> "get_default_dtype"
      [] pc = "get_default_dtype" -> "set_default_dtype"
      [] pc = "set_default_dtype" -> "construct"
      [] pc = "construct" /\ model_config.quantization # "None" -> "check_dtype"
      [] pc = "construct" /\ model_config.quantization = "None" ->
            IF IsDummyLoad(model_config.load_format)
            THEN "cuda_dummy" ELSE "load_weights"
      [] pc = "check_dtype" ->
            IF IsDummyLoad(model_config.load_format)
            THEN "cuda_dummy" ELSE "load_weights"
      [] pc = "cuda_dummy" -> "initialize_dummy_weights"
      [] pc = "load_weights" -> "cuda_loaded"
      [] pc \in {"initialize_dummy_weights", "cuda_loaded"} ->
            IF model_config.quantization # "None"
            THEN "quant_post_init" ELSE "restore_default_dtype"
      [] pc = "quant_post_init" -> "restore_default_dtype"
      [] pc = "restore_default_dtype" -> "eval"
      [] pc = "eval" -> "returned"

\* Mutant: after load_weights the post-quantization init runs before the
\* module is placed on the device.
NextStatement_PostInitBeforeCuda(pc, model_config) ==
    CASE pc = "call" -> "resolve"
      [] pc = "resolve" -> "quant_support"
      [] pc = "quant_support" ->
            IF model_config.quantization # "None"
            THEN "get_quant_config" ELSE "get_default_dtype"
      [] pc = "get_quant_config" -> "get_capability"
      [] pc = "get_capability" -> "check_capability"
      [] pc = "check_capability" -> "check_dtype"
      [] pc = "check_dtype" -> "get_default_dtype"
      [] pc = "get_default_dtype" -> "set_default_dtype"
      [] pc = "set_default_dtype" -> "construct"
      [] pc = "construct" ->
            IF IsDummyLoad(model_config.load_format)
            THEN "cuda_dummy" ELSE "load_weights"
      [] pc = "cuda_dummy" -> "initialize_dummy_weights"
      [] pc = "load_weights" ->
            IF model_config.quantization # "None"
            THEN "quant_post_init" ELSE "cuda_loaded"
      [] pc = "initialize_dummy_weights" ->
            IF model_config.quantization # "None"
            THEN "quant_post_init" ELSE "restore_default_dtype"
      [] pc = "quant_post_init" ->
            IF IsDummyLoad(model_config.load_format)
            THEN "restore_default_dtype" ELSE "cuda_loaded"
      [] pc = "cuda_loaded" -> "restore_default_dtype"
      [] pc = "restore_default_dtype" -> "eval"
      [] pc = "eval" -> "returned"

\* Mutant: the from-source path places the module on the device before it
\* loads the weights, as the dummy path does.
NextStatement_PlaceBeforeLoad(pc, model_config) ==
    CASE pc = "call" -> "resolve"
      [] pc = "resolve" -> "quant_support"
      [] pc = "quant_support" ->
            IF model_config.quantization # "None"
            THEN "get_quant_config" ELSE "get_default_dtype"
      [] pc = "get_quant_config" -> "get_capability"
      [] pc = "get_capability" -> "check_capability"
      [] pc = "check_capability" -> "check_dtype"
      [] pc = "check_dtype" -> "get_default_dtype"
      [] pc = "get_default_dtype" -> "set_default_dtype"
      [] pc = "set_default_dtype" -> "construct"
      [] pc = "construct" ->
            IF IsDummyLoad(model_config.load_format)
            THEN "cuda_dummy" ELSE "cuda_loaded"
      [] pc = "cuda_dummy" -> "initialize_dummy_weights"
      [] pc = "cuda_loaded" -> "load_weights"
      [] pc \in {"initialize_dummy_weights", "load_weights"} ->
            IF model_config.quantization # "None"
            THEN "quant_post_init" ELSE "restore_default_dtype"
      [] pc = "quant_post_init" -> "restore_default_dtype"
      [] pc = "restore_default_dtype" -> "eval"
      [] pc = "eval" -> "returned"

\* Mutant: the dtype check is made before the capability probe and check.
NextStatement_DtypeBeforeCapability(pc, model_config) ==
    CASE pc = "call" -> "resolve"
      [] pc = "resolve" -> "quant_support"
      [] pc = "quant_support" ->
            IF model_config.quantization # "None"
            THEN "get_quant_config" ELSE "get_default_dtype"
      [] pc = "get_quant_config" -> "check_dtype"
      [] pc = "get_capability" -> "check_capability"
      [] pc = "check_capability" -> "get_default_dtype"
      [] pc = "check_dtype" -> "get_capability"
      [] pc = "get_default_dtype" -> "set_default_dtype"
      [] pc = "set_default_dtype" -> "construct"
      [] pc = "construct" ->
            IF IsDummyLoad(model_config.load_format)
            THEN "cuda_dummy" ELSE "load_weights"
      [] pc = "cuda_dummy" -> "initialize_dummy_weights"
      [] pc = "load_weights" -> "cuda_loaded"
      [] pc \in {"initialize_dummy_weights", "cuda_loaded"} ->
            IF model_config.quantization # "None"
            THEN "quant_post_init" ELSE "restore_default_dtype"
      [] pc = "quant_post_init" -> "restore_default_dtype"
      [] pc = "restore_default_dtype" -> "eval"
      [] pc = "eval" -> "returned"

\* Mutant: the quantization validation runs whether or not a method is
\* configured.
NextStatement_AlwaysValidate(pc, model_config) ==
    CASE pc = "call" -> "resolve"
      [] pc = "resolve" -> "quant_support"
      [] pc = "quant_support" -> "get_quant_config"
      [] pc = "get_quant_config" -> "get_capability"
      [] pc = "get_capability" -> "check_capability"
      [] pc = "check_capability" -> "check_dtype"
      [] pc = "check_dtype" -> "get_default_dtype"
      [] pc = "get_default_dtype" -> "set_default_dtype"
      [] pc = "set_default_dtype" -> "construct"
      [] pc = "construct" ->
            IF IsDummyLoad(model_config.load_format)
            THEN "cuda_dummy" ELSE "load_weights"
      [] pc = "cuda_dummy" -> "initialize_dummy_weights"
      [] pc = "load_weights" -> "cuda_loaded"
      [] pc \in {"initialize_dummy_weights", "cuda_loaded"} ->
            IF model_config.quantization # "None"
            THEN "quant_post_init" ELSE "restore_default_dtype"
      [] pc = "quant_post_init" -> "restore_default_dtype"
      [] pc = "restore_default_dtype" -> "eval"
      [] pc = "eval" -> "returned"

\* The statement reached when statement `pc` completes normally.
NextStatement(pc, model_config) ==
    CASE pc = "call" -> "resolve"
      [] pc = "resolve" -> "quant_support"
      [] pc = "quant_support" ->
            IF model_config.quantization # "None"
            THEN "get_quant_config" ELSE "get_default_dtype"
      [] pc = "get_quant_config" -> "get_capability"
      [] pc = "get_capability" -> "check_capability"
      [] pc = "check_capability" -> "check_dtype"
      [] pc = "check_dtype" -> "get_default_dtype"
      [] pc = "get_default_dtype" -> "set_default_dtype"
      [] pc = "set_default_dtype" -> "construct"
      [] pc = "construct" ->
            IF IsDummyLoad(model_config.load_format)
            THEN "cuda_dummy" ELSE "load_weights"
      [] pc = "cuda_dummy" -> "initialize_dummy_weights"
      [] pc = "load_weights" -> "cuda_loaded"
      [] pc \in {"initialize_dummy_weights", "cuda_loaded"} ->
            IF model_config.quantization # "None"
            THEN "quant_post_init" ELSE "restore_default_dtype"
      [] pc = "quant_post_init" -> "restore_default_dtype"
      [] pc = "restore_default_dtype" -> "eval"
      [] pc = "eval" -> "returned"

\* Frame f after its current statement completed normally, having invoked
\* the operations in `log`.
Advance(f, log) ==
    [f EXCEPT !.pc = NextStatement(f.pc, f.model_config),
              !.log = f.log \o log]

\* ----------------------------------------------------------------- actions
\* A caller enters get_model(model_config, max_tokens), the arguments drawn
\* from `configs` and `tokens`.
CallWith(t, configs, tokens) ==
    /\ frame[t].pc = "idle"
    /\ \E model_config \in configs, max_tokens \in tokens :
          frame' = [frame EXCEPT ![t] =
                     [IdleFrame EXCEPT
                        !.pc = NextStatement("call", model_config),
                        !.model_config = model_config,
                        !.max_tokens = max_tokens,
                        !.entry_dtype = default_dtype,
                        !.started_after =
                           {u \in Threads \ {t} :
                               frame[u].pc \in {"returned", "raised"}}]]
    /\ UNCHANGED default_dtype

Call(t) == CallWith(t, ModelConfigs, 1..MaxTokens)

\* Line 53: model_class = _get_model_architecture(model_config.hf_config).
GetModelArchitecture(t) ==
    LET f == frame[t]
        r == get_model_architecture(f.model_config.hf_config)
    IN  /\ f.pc = "resolve"
        /\ frame' = [frame EXCEPT ![t] =
                       IF r.raised
                       THEN RaiseFrom(f, r.error, <<"resolve">>)
                       ELSE Advance([f EXCEPT !.model_class = r.value],
                                    <<"resolve">>)]
        /\ UNCHANGED default_dtype

\* Mutant: the class is not looked up in the method's list at lines 58-61.
CheckQuantSupport_NoListCheck(t) ==
    LET f == frame[t]
        q == f.model_config.quantization
    IN  /\ f.pc = "quant_support"
        /\ frame' = [frame EXCEPT ![t] =
              IF q = "None" THEN Advance(f, <<>>)
              ELSE IF q \notin DOMAIN MODEL_CLASSES_SUPPORT_QUANTIZATION
              THEN RaiseFrom(f, [kind |-> "KeyError", type |-> "KeyError",
                                 key |-> q], <<>>)
              ELSE Advance(f, <<>>)]
        /\ UNCHANGED default_dtype

\* Lines 56-61: quant_config = None; when a method is configured the support
\* table is indexed with it (KeyError for a method it lacks) and the class
\* must be listed.
CheckQuantSupport(t) ==
    LET f == frame[t]
        q == f.model_config.quantization
    IN  /\ f.pc = "quant_support"
        /\ frame' = [frame EXCEPT ![t] =
              IF q = "None" THEN Advance(f, <<>>)
              ELSE IF q \notin DOMAIN MODEL_CLASSES_SUPPORT_QUANTIZATION
              THEN RaiseFrom(f, [kind |-> "KeyError", type |-> "KeyError",
                                 key |-> q], <<>>)
              ELSE IF ~SupportsQuantization(f.model_class, q)
              THEN RaiseFrom(f, [kind |-> "UnsupportedQuantizationForArchitecture",
                                 type |-> "ValueError",
                                 model_class |-> f.model_class], <<>>)
              ELSE Advance(f, <<>>)]
        /\ UNCHANGED default_dtype

\* Lines 62-65: quant_config = get_quant_config(...), which may raise.
GetQuantConfig(t) ==
    LET f == frame[t]
    IN  /\ f.pc = "get_quant_config"
        /\ \/ \E qc \in QuantConfigs(f.model_config.quantization) :
                 frame' = [frame EXCEPT ![t] =
                    Advance([f EXCEPT !.quant_config = qc],
                            <<"get_quant_config">>)]
           \/ frame' = [frame EXCEPT ![t] =
                 RaiseFrom(f, [kind |-> "QuantConfigFailure",
                               type |-> "collaborator"],
                           <<"get_quant_config">>)]
        /\ UNCHANGED default_dtype

\* Lines 66-67: the capability probe, which may raise, and its scalar.
GetDeviceCapability(t) ==
    LET f == frame[t]
    IN  /\ f.pc = "get_capability"
        /\ \/ \E c \in DeviceCapabilities :
                 frame' = [frame EXCEPT ![t] =
                    Advance([f EXCEPT !.device_capability = c,
                                      !.capability = CapabilityScalar(c)],
                            <<"get_device_capability">>)]
           \/ frame' = [frame EXCEPT ![t] =
                 RaiseFrom(f, [kind |-> "CapabilityProbeFailure",
                               type |-> "collaborator"],
                           <<"get_device_capability">>)]
        /\ UNCHANGED default_dtype

\* Lines 68-73.
CheckCapability(t) ==
    LET f == frame[t]
    IN  /\ f.pc = "check_capability"
        /\ frame' = [frame EXCEPT ![t] =
              IF CapabilityTooLow(f.capability, f.quant_config)
              THEN RaiseFrom(f, [kind |-> "InsufficientHardwareCapability",
                                 type |-> "ValueError",
                                 quantization |-> f.model_config.quantization,
                                 minimum |-> f.quant_config.min_capability,
                                 current |-> f.capability], <<>>)
              ELSE Advance(f, <<>>)]
        /\ UNCHANGED default_dtype

\* Lines 74-79.
CheckDtype(t) ==
    LET f == frame[t]
        supported_dtypes == f.quant_config.supported_act_dtypes
    IN  /\ f.pc = "check_dtype"
        /\ frame' = [frame EXCEPT ![t] =
              IF DtypeNotSupported(f.model_config.dtype, supported_dtypes)
              THEN RaiseFrom([f EXCEPT !.supported_dtypes = supported_dtypes],
                             [kind |-> "UnsupportedDtypeForQuantization",
                              type |-> "ValueError",
                              dtype |-> f.model_config.dtype,
                              quantization |-> f.model_config.quantization,
                              supported |-> supported_dtypes], <<>>)
              ELSE Advance([f EXCEPT !.supported_dtypes = supported_dtypes],
                           <<>>)]
        /\ UNCHANGED default_dtype

\* Line 36, on entering the with statement of line 81:
\* old_dtype = torch.get_default_dtype().
GetDefaultDtype(t) ==
    LET f == frame[t]
    IN  /\ f.pc = "get_default_dtype"
        /\ frame' = [frame EXCEPT ![t] =
              Advance([f EXCEPT !.old_dtype = default_dtype],
                      <<"get_default_dtype">>)]
        /\ UNCHANGED default_dtype

\* Line 37: torch.set_default_dtype(dtype); torch rejects a dtype that is
\* not floating point and then leaves the default as it was.
SetDefaultDtype(t) ==
    LET f == frame[t]
        dtype == f.model_config.dtype
    IN  /\ f.pc = "set_default_dtype"
        /\ IF dtype \in FloatDtypes
           THEN /\ default_dtype' = dtype
                /\ frame' = [frame EXCEPT ![t] =
                               Advance(f, <<"set_default_dtype">>)]
           ELSE /\ UNCHANGED default_dtype
                /\ frame' = [frame EXCEPT ![t] =
                      RaiseFrom(f, [kind |-> "SetDefaultDtypeFailure",
                                    type |-> "TypeError", dtype |-> dtype],
                                <<"set_default_dtype">>)]

\* An exception raised by a statement inside the with block of line 81: it
\* is thrown into the generator at its yield and leaves get_model.
RaiseInScope(t, error, log) ==
    /\ frame' = [frame EXCEPT ![t] = RaiseFrom(frame[t], error, log)]
    /\ default_dtype' = DefaultAfterException(default_dtype, frame[t].old_dtype)

\* Lines 84-89: the module is constructed, with the quant_config when a
\* method is configured and the class is listed for it; the constructor may
\* raise.
Construct(t) ==
    LET f == frame[t]
        q == f.model_config.quantization
        hf_config == f.model_config.hf_config
    IN  /\ f.pc = "construct"
        /\ IF q # "None" /\ q \notin DOMAIN MODEL_CLASSES_SUPPORT_QUANTIZATION
           THEN RaiseInScope(t, [kind |-> "KeyError", type |-> "KeyError",
                                 key |-> q], <<>>)
           ELSE LET quantized == q # "None" /\ SupportsQuantization(f.model_class, q)
                    ctor == IF quantized
                            THEN "model_class(hf_config, quant_config)"
                            ELSE "model_class(hf_config)"
                    model == NewModule(f.model_class, hf_config,
                                       IF quantized THEN f.quant_config ELSE None,
                                       default_dtype)
                IN  \/ /\ frame' = [frame EXCEPT ![t] =
                              Advance([f EXCEPT !.model = model], <<ctor>>)]
                       /\ UNCHANGED default_dtype
                    \/ RaiseInScope(t, [kind |-> "ConstructionFailure",
                                        type |-> "collaborator"], <<ctor>>)

\* model = model.cuda(), which may raise (line 91 or line 99).
Cuda(t, at) ==
    LET f == frame[t]
    IN  /\ f.pc = at
        /\ \/ /\ frame' = [frame EXCEPT ![t] =
                    Advance([f EXCEPT !.model.device = "cuda"], <<"cuda">>)]
              /\ UNCHANGED default_dtype
           \/ RaiseInScope(t, [kind |-> "DevicePlacementFailure",
                               type |-> "collaborator"], <<"cuda">>)

\* Line 91.
CudaDummy(t) == Cuda(t, "cuda_dummy")

\* Line 94: initialize_dummy_weights(model).
InitializeDummyWeights(t) ==
    LET f == frame[t]
    IN  /\ f.pc = "initialize_dummy_weights"
        /\ \/ /\ frame' = [frame EXCEPT ![t] =
                    Advance([f EXCEPT !.model.weights = "dummy"],
                            <<"initialize_dummy_weights">>)]
              /\ UNCHANGED default_dtype
           \/ RaiseInScope(t, [kind |-> "DummyInitFailure",
                               type |-> "collaborator"],
                           <<"initialize_dummy_weights">>)

\* Lines 97-98: model.load_weights(model, download_dir, load_format, revision).
LoadWeights(t) ==
    LET f == frame[t]
        c == f.model_config
        args == <<c.model, c.download_dir, c.load_format, c.revision>>
    IN  /\ f.pc = "load_weights"
        /\ \/ /\ frame' = [frame EXCEPT ![t] =
                    Advance([f EXCEPT !.model.weights = "loaded",
                                      !.model.load_args = args],
                            <<"load_weights">>)]
              /\ UNCHANGED default_dtype
           \/ RaiseInScope(t, [kind |-> "WeightLoadFailure",
                               type |-> "collaborator"], <<"load_weights">>)

\* Line 99.
CudaLoaded(t) == Cuda(t, "cuda_loaded")

\* Mutant: quant_post_init is given a fixed bound instead of max_tokens.
QuantPostInit_FixedTokens(t) ==
    LET f == frame[t]
    IN  /\ f.pc = "quant_post_init"
        /\ frame' = [frame EXCEPT ![t] =
              Advance([f EXCEPT !.model.post_init = 1], <<"quant_post_init">>)]
        /\ UNCHANGED default_dtype

\* Lines 100-101: quant_post_init(model, max_tokens).
QuantPostInit(t) ==
    LET f == frame[t]
    IN  /\ f.pc = "quant_post_init"
        /\ \/ /\ frame' = [frame EXCEPT ![t] =
                    Advance([f EXCEPT !.model.post_init = f.max_tokens],
                            <<"quant_post_init">>)]
              /\ UNCHANGED default_dtype
           \/ RaiseInScope(t, [kind |-> "PostQuantInitFailure",
                               type |-> "collaborator"], <<"quant_post_init">>)

\* Mutant: the with block ends without restoring the recorded default.
RestoreDefaultDtype_Skip(t) ==
    LET f == frame[t]
    IN  /\ f.pc = "restore_default_dtype"
        /\ UNCHANGED default_dtype
        /\ frame' = [frame EXCEPT ![t] =
                       Advance(f, <<"restore_default_dtype">>)]

\* Line 39, when the with block ends normally:
\* torch.set_default_dtype(old_dtype).
RestoreDefaultDtype(t) ==
    LET f == frame[t]
    IN  /\ f.pc = "restore_default_dtype"
        /\ default_dtype' = f.old_dtype
        /\ frame' = [frame EXCEPT ![t] =
                       Advance(f, <<"restore_default_dtype">>)]

\* Line 102: return model.eval().
Eval(t) ==
    LET f == frame[t]
        evaluated == ModuleEval(f.model)
    IN  /\ f.pc = "eval"
        /\ frame' = [frame EXCEPT ![t] =
              Advance([f EXCEPT !.model = evaluated, !.result = evaluated],
                      <<"eval">>)]
        /\ UNCHANGED default_dtype

\* The caller takes the module or the exception; the frame is gone.
Return(t) ==
    /\ frame[t].pc \in {"returned", "raised"}
    /\ frame' = [frame EXCEPT ![t] = IdleFrame]
    /\ UNCHANGED default_dtype

\* ----------------------------------------------------------- specification
\* One caller at a time: get_model is called again only after it returned.
Next ==
    \/ Call("t1")
    \/ GetModelArchitecture("t1")
    \/ CheckQuantSupport("t1")
    \/ GetQuantConfig("t1")
    \/ GetDeviceCapability("t1")
    \/ CheckCapability("t1")
    \/ CheckDtype("t1")
    \/ GetDefaultDtype("t1")
    \/ SetDefaultDtype("t1")
    \/ Construct("t1")
    \/ CudaDummy("t1")
    \/ InitializeDummyWeights("t1")
    \/ LoadWeights("t1")
    \/ CudaLoaded("t1")
    \/ QuantPostInit("t1")
    \/ RestoreDefaultDtype("t1")
    \/ Eval("t1")
    \/ Return("t1")

Spec == Init /\ [][Next]_vars

\* Two threads that call get_model once each, without a quantization method,
\* for the Llama class, with a dtype and a load format of their own; their
\* statements interleave freely, no lock being taken anywhere in loader.py.
ConcConfigs ==
    {c \in ModelConfigs :
        /\ c.hf_config = [tag |-> "PretrainedConfig",
                          architectures |-> <<"LlamaForCausalLM">>]
        /\ c.quantization = "None"
        /\ c.dtype \in {"float16", "bfloat16"}
        /\ c.load_format \in {"dummy", "auto"}}

CallConc(t) == CallWith(t, ConcConfigs, {1})

NextConc ==
    \E t \in Threads :
        \/ CallConc(t)
        \/ GetModelArchitecture(t)
        \/ CheckQuantSupport(t)
        \/ GetDefaultDtype(t)
        \/ SetDefaultDtype(t)
        \/ Construct(t)
        \/ CudaDummy(t)
        \/ InitializeDummyWeights(t)
        \/ LoadWeights(t)
        \/ CudaLoaded(t)
        \/ RestoreDefaultDtype(t)
        \/ Eval(t)

SpecConc == Init /\ [][NextConc]_vars

\* ------------------------------------------------- vocabulary of the claims
\* How often a call invoked `op`.
Count(log, op) == Cardinality({i \in 1..Len(log) : log[i] = op})

Invoked(f, op) == Count(f.log, op) > 0

\* The call is over: the module was returned or an exception was raised.
Finished(f) == f.pc \in {"returned", "raised"}

Failed(f, kind) == f.pc = "raised" /\ f.error.kind = kind

Constructors == {"model_class(hf_config)", "model_class(hf_config, quant_config)"}

\* The operations that construct, place, fill or initialise a module.
ModuleOps ==
    Constructors \cup
    {"cuda", "load_weights", "initialize_dummy_weights", "quant_post_init"}

\* Those and the capability probe: everything that touches the accelerator.
AcceleratorOps == ModuleOps \cup {"get_device_capability"}

\* No listed name is a key of the registry.
NoRegisteredName(architectures) ==
    \A i \in 1..Len(architectures) :
        architectures[i] \notin DOMAIN MODEL_REGISTRY

\* The classes listed for a method of the support table.
SupportSet(method) ==
    {MODEL_CLASSES_SUPPORT_QUANTIZATION[method][i] :
        i \in 1..Len(MODEL_CLASSES_SUPPORT_QUANTIZATION[method])}

\* The capability probe answered, and this is its scalar major*10+minor.
Probed(f) == f.device_capability # <<>>
Scalar(f) == f.device_capability[1] * 10 + f.device_capability[2]

\* ------------------------------------------------------------------ claims
\* C1: whenever a get_model call is over, by a return or by an exception
\* raised at any step, the process-wide default dtype equals its value at
\* the moment the call was made.
C1_DefaultDtypeRestored ==
    \A t \in Threads :
        Finished(frame[t]) => default_dtype = frame[t].entry_dtype

\* C2: a call whose architectures list (empty or missing included) names no
\* key of the registry ends with the UnsupportedArchitecture error, which
\* carries the requested and the supported names, and it invoked no
\* accelerator operation: no capability probe, construction, placement or
\* weight loading.
C2_UnregisteredFailsUntouched ==
    \A t \in Threads :
        LET f == frame[t]
        IN  (Finished(f) /\ NoRegisteredName(GetArchitectures(f.model_config.hf_config)))
            => /\ Failed(f, "UnsupportedArchitecture")
               /\ f.error.architectures = GetArchitectures(f.model_config.hf_config)
               /\ f.error.supported = RegistryKeys
               /\ \A op \in AcceleratorOps : ~Invoked(f, op)
               /\ f.model = None /\ f.result = None

C2_Witness ==
    \E t \in Threads :
        /\ Failed(frame[t], "UnsupportedArchitecture")
        /\ GetArchitectures(frame[t].model_config.hf_config)
              = <<"FooForCausalLM", "FooForCausalLM">>

C4_LowCapabilityFails ==
    \A t \in Threads :
        LET f == frame[t]
        IN  (Finished(f) /\ f.quant_config # None /\ Probed(f))
            => /\ Scalar(f) < f.quant_config.min_capability
                  => /\ Failed(f, "InsufficientHardwareCapability")
                     /\ f.error.minimum = f.quant_config.min_capability
                     /\ f.error.current = Scalar(f)
                     /\ ~Invoked(f, "load_weights")
                     /\ f.model = None
               /\ Scalar(f) >= f.quant_config.min_capability
                  => ~Failed(f, "InsufficientHardwareCapability")

\* Both halves happen: 75 < 80 has failed, and 80 = 80 has returned a module.
C4_Witness ==
    \E t \in Threads :
        LET f == frame[t]
        IN  /\ Failed(f, "InsufficientHardwareCapability")
            /\ f.error.minimum = 80 /\ f.error.current = 75
            /\ f.model_config.load_format = "auto"

C4_WitnessEqual ==
    \E t \in Threads :
        LET f == frame[t]
        IN  /\ f.pc = "returned"
            /\ f.quant_config # None
            /\ f.capability = 80 /\ f.quant_config.min_capability = 80

\* C5: a quantized call that passed the support and capability checks and
\* whose dtype is not among the config's supported activation dtypes ends
\* with the UnsupportedDtypeForQuantization error carrying the dtype and the
\* supported set; no module was constructed and the default dtype was never
\* set.
C5_UnsupportedDtypeFails ==
    \A t \in Threads :
        LET f == frame[t]
        IN  (/\ Finished(f) /\ f.quant_config # None /\ Probed(f)
             /\ Scalar(f) >= f.quant_config.min_capability
             /\ f.model_config.dtype \notin f.quant_config.supported_act_dtypes)
            => /\ Failed(f, "UnsupportedDtypeForQuantization")
               /\ f.error.dtype = f.model_config.dtype
               /\ f.error.supported = f.quant_config.supported_act_dtypes
               /\ \A op \in ModuleOps \cup {"set_default_dtype"} : ~Invoked(f, op)
               /\ f.model = None
               /\ default_dtype = f.entry_dtype

C5_Witness ==
    \E t \in Threads :
        LET f == frame[t]
        IN  /\ Failed(f, "UnsupportedDtypeForQuantization")
            /\ f.model_config.dtype = "bfloat16"
            /\ f.quant_config.supported_act_dtypes = {"float16"}
            /\ f.entry_dtype = "float32"

\* C6: a call never invokes both weight paths: with load_format "dummy" it
\* never invokes load_weights, with any other format it never invokes
\* initialize_dummy_weights; once its weight materialization is over, the
\* dummy path has invoked initialize_dummy_weights exactly once and the
\* other path load_weights exactly once (which the latter has done as soon
\* as the constructor returned and load_weights was reached).
C6_OneMaterializationPath ==
    \A t \in Threads :
        LET f == frame[t]
            dummy == f.model_config.load_format = "dummy"
            loads == Count(f.log, "load_weights")
            fills == Count(f.log, "initialize_dummy_weights")
        IN  f.pc # "idle"
            => /\ dummy => loads = 0
               /\ ~dummy => fills = 0
               /\ (Invoked(f, "quant_post_init") \/ Invoked(f, "restore_default_dtype"))
                  => IF dummy
                     THEN fills = 1 /\ f.model.weights = "dummy"
                     ELSE loads = 1 /\ f.model.weights = "loaded"
               /\ (~dummy /\ f.model # None /\ f.pc # "load_weights") => loads = 1
               /\ (dummy /\ f.model # None /\ f.model.device = "cuda"
                     /\ f.pc # "initialize_dummy_weights") => fills = 1

C6_Witness ==
    \E t \in Threads :
        /\ frame[t].pc = "returned"
        /\ frame[t].model_config.load_format = "safetensors"
        /\ Count(frame[t].log, "load_weights") = 1
        /\ frame[t].result.weights = "loaded"

C6_WitnessDummy ==
    \E t \in Threads :
        /\ frame[t].pc = "returned"
        /\ frame[t].model_config.load_format = "dummy"
        /\ Count(frame[t].log, "initialize_dummy_weights") = 1
        /\ frame[t].result.weights = "dummy"

\* C7: a call has a result only when it returned, and the module it returned
\* is in evaluation mode, eval having been invoked once, as the last
\* operation of the call.
C7_ReturnedInEvalMode ==
    \A t \in Threads :
        LET f == frame[t]
        IN  /\ f.result # None => f.pc = "returned"
            /\ f.pc = "returned"
               => /\ f.result # None
                  /\ f.result.training = FALSE
                  /\ Count(f.log, "eval") = 1
                  /\ f.log[Len(f.log)] = "eval"

C7_Witness ==
    \E t \in Threads :
        /\ frame[t].pc = "returned"
        /\ frame[t].model_config.quantization = "gptq"
        /\ frame[t].result.training = FALSE

\* C8: whenever the constructor was invoked with a quant_config, or a module
\* holds one, the configured method is in the support table with the
\* resolved class in its support set, and the quant_config is the one that
\* passed the capability check and the dtype check.
C8_QuantConfigOnlyWhenValidated ==
    \A t \in Threads :
        LET f == frame[t]
            q == f.model_config.quantization
        IN  (\/ Invoked(f, "model_class(hf_config, quant_config)")
             \/ (f.model # None /\ f.model.quant_config # None))
            => /\ q \in DOMAIN MODEL_CLASSES_SUPPORT_QUANTIZATION
               /\ f.model_class \in SupportSet(q)
               /\ f.quant_config # None
               /\ Probed(f)
               /\ Scalar(f) >= f.quant_config.min_capability
               /\ f.model_config.dtype \in f.quant_config.supported_act_dtypes
               /\ f.model # None => f.model.quant_config = f.quant_config

C8_Witness ==
    \E t \in Threads :
        /\ frame[t].model # None
        /\ frame[t].model.quant_config # None
        /\ frame[t].model_config.quantization = "awq"
        /\ frame[t].model_class = LlamaForCausalLM

\* The statements of steps 1-3: resolution, quantization validation and the
\* opening of the dtype scope.
Steps1To3 ==
    {"resolve", "quant_support", "get_quant_config", "get_capability",
     "check_capability", "check_dtype", "get_default_dtype",
     "set_default_dtype"}

\* C9: a call that raised at a statement of steps 1-3 has constructed no
\* module, placed nothing on the device, loaded or dummy-initialised no
\* weights and run no post-quantization init.
C9_EarlyFailureCommitsNothing ==
    \A t \in Threads :
        LET f == frame[t]
        IN  (f.pc = "raised" /\ f.raised_at \in Steps1To3)
            => /\ \A op \in ModuleOps : ~Invoked(f, op)
               /\ f.model = None

C9_Witness ==
    \E t \in Threads :
        /\ frame[t].pc = "raised"
        /\ frame[t].raised_at = "set_default_dtype"
        /\ frame[t].model_config.dtype = "int8"

\* C10 (state part): the resolved class is the registry's class of the first
\* listed name that is a key of the registry, whatever the later names map
\* to; both Llama spellings give the Llama class.
C10_FirstMatch ==
    \A t \in Threads :
        LET f == frame[t]
            architectures == GetArchitectures(f.model_config.hf_config)
        IN  f.model_class # "None"
            => \E i \in 1..Len(architectures) :
                  /\ architectures[i] \in DOMAIN MODEL_REGISTRY
                  /\ \A j \in 1..(i - 1) :
                        architectures[j] \notin DOMAIN MODEL_REGISTRY
                  /\ f.model_class = MODEL_REGISTRY[architectures[i]]
                  /\ architectures[i] \in {"LlamaForCausalLM", "LLaMAForCausalLM"}
                        => f.model_class = LlamaForCausalLM

\* C10 (step part): the resolution statement changes nothing but the call's
\* own model_class or error, its position and its log.
C10_ResolveStep(t) ==
    (frame[t].pc = "resolve" /\ frame'[t].pc # "resolve")
    => /\ default_dtype' = default_dtype
       /\ \A u \in Threads \ {t} : frame'[u] = frame[u]
       /\ frame'[t] = [frame[t] EXCEPT !.pc = frame'[t].pc,
                                       !.model_class = frame'[t].model_class,
                                       !.error = frame'[t].error,
                                       !.raised_at = frame'[t].raised_at,
                                       !.log = frame[t].log \o <<"resolve">>]

\* C10: architecture resolution is first-match-wins in list order, maps both
\* Llama spellings to one class, and changes no state.
C10_ResolveFirstMatchWins ==
    /\ []C10_FirstMatch
    /\ [][\A t \in Threads : C10_ResolveStep(t)]_vars

C10_Witness ==
    \E t \in Threads :
        /\ frame[t].model_class = GPTJForCausalLM
        /\ GetArchitectures(frame[t].model_config.hf_config)
              = <<"GPTJForCausalLM", "LLaMAForCausalLM">>

C10_WitnessAlias ==
    \E t \in Threads :
        /\ frame[t].model_class = LlamaForCausalLM
        /\ GetArchitectures(frame[t].model_config.hf_config)
              = <<"FooForCausalLM", "LLaMAForCausalLM">>

\* Every operation a call can invoke.
AllOps ==
    AcceleratorOps \cup
    {"resolve", "get_quant_config", "get_default_dtype", "set_default_dtype",
     "restore_default_dtype", "eval"}

\* The error with which each statement fails.
KindsAt(pc) ==
    CASE pc = "resolve" -> {"UnsupportedArchitecture"}
      [] pc = "quant_support" ->
            {"UnsupportedQuantizationForArchitecture", "KeyError"}
      [] pc = "get_quant_config" -> {"QuantConfigFailure"}
      [] pc = "get_capability" -> {"CapabilityProbeFailure"}
      [] pc = "check_capability" -> {"InsufficientHardwareCapability"}
      [] pc = "check_dtype" -> {"UnsupportedDtypeForQuantization"}
      [] pc = "set_default_dtype" -> {"SetDefaultDtypeFailure"}
      [] pc = "construct" -> {"ConstructionFailure"}
      [] pc \in {"cuda_dummy", "cuda_loaded"} -> {"DevicePlacementFailure"}
      [] pc = "initialize_dummy_weights" -> {"DummyInitFailure"}
      [] pc = "load_weights" -> {"WeightLoadFailure"}
      [] pc = "quant_post_init" -> {"PostQuantInitFailure"}
      [] OTHER -> {}

\* C11 (state part): a call invokes every operation at most once and the
\* constructor, in either form, at most once; it starts with the resolution;
\* it has an error exactly when it raised, the error being the one of the
\* statement that raised, and then it has no result.
C11_AtMostOnce ==
    \A t \in Threads :
        LET f == frame[t]
        IN  /\ \A op \in AllOps : Count(f.log, op) <= 1
            /\ Cardinality({i \in 1..Len(f.log) : f.log[i] \in Constructors}) <= 1
            /\ f.log # <<>> => f.log[1] = "resolve"
            /\ (f.error # None) <=> (f.pc = "raised")
            /\ f.pc = "raised"
               => /\ f.error.kind \in KindsAt(f.raised_at)
                  /\ f.result = None

\* C11 (step part): a call that raised takes no further step until its
\* caller has the exception, and a new call starts from its arguments alone,
\* with every local unset and an empty log.
C11_Step(t) ==
    /\ frame[t].pc = "raised" => frame'[t] \in {frame[t], IdleFrame}
    /\ (frame[t].pc = "idle" /\ frame'[t].pc # "idle")
       => frame'[t] = [IdleFrame EXCEPT
                          !.pc = "resolve",
                          !.model_config = frame'[t].model_config,
                          !.max_tokens = frame'[t].max_tokens,
                          !.entry_dtype = default_dtype,
                          !.started_after = frame'[t].started_after]

TaxonomyKinds ==
    {"UnsupportedArchitecture", "UnsupportedQuantizationForArchitecture",
     "InsufficientHardwareCapability", "UnsupportedDtypeForQuantization",
     "WeightLoadFailure", "ConstructionFailure"}

CollaboratorKinds ==
    {"QuantConfigFailure", "CapabilityProbeFailure", "SetDefaultDtypeFailure",
     "DevicePlacementFailure", "DummyInitFailure", "PostQuantInitFailure"}

\* C12: every error a call raises is of a kind of the taxonomy or a
\* collaborator's failure, and a call whose class was resolved and whose
\* method is not None and has no entry in the support table fails with
\* UnsupportedQuantizationForArchitecture.
C12_ErrorsWithinTaxonomy ==
    \A t \in Threads :
        LET f == frame[t]
        IN  f.pc = "raised"
            => /\ f.error.kind \in TaxonomyKinds \cup CollaboratorKinds
               /\ (/\ f.model_class # "None"
                   /\ f.model_config.quantization # "None"
                   /\ f.model_config.quantization
                         \notin DOMAIN MODEL_CLASSES_SUPPORT_QUANTIZATION)
                  => f.error.kind = "UnsupportedQuantizationForArchitecture"

\* The place of the first `op` in a log, 0 when it is not there.
Pos(log, op) ==
    IF \E i \in 1..Len(log) : log[i] = op
    THEN CHOOSE i \in 1..Len(log) :
            log[i] = op /\ \A j \in 1..(i - 1) : log[j] # op
    ELSE 0

\* The places of the constructor call and of the weight materialization.
PosConstruct(log) ==
    Pos(log, "model_class(hf_config)") + Pos(log, "model_class(hf_config, quant_config)")
PosWeights(log) ==
    Pos(log, "load_weights") + Pos(log, "initialize_dummy_weights")

\* C13 as claimed: in every returned call the weights were materialized
\* before the module was placed on the device, on both paths.
C13_WeightsBeforePlacement ==
    \A t \in Threads :
        LET f == frame[t]
        IN  f.pc = "returned"
            => /\ PosConstruct(f.log) > 0
               /\ PosConstruct(f.log) < PosWeights(f.log)
               /\ PosWeights(f.log) < Pos(f.log, "cuda")

\* C13 as amended: in every returned call the module was constructed, then
\* its weights materialized and the module placed on the device, then (for a
\* quantized call) post-quantization initialised, then put in evaluation
\* mode; the weights precede the placement on the from-source path and
\* follow it on the dummy path.
C13_LifecycleOrder ==
    \A t \in Threads :
        LET f == frame[t]
            quantized == f.model_config.quantization # "None"
            last == IF quantized THEN Pos(f.log, "quant_post_init")
                    ELSE Pos(f.log, "eval")
        IN  f.pc = "returned"
            => /\ PosConstruct(f.log) > 0
               /\ PosConstruct(f.log) < PosWeights(f.log)
               /\ PosConstruct(f.log) < Pos(f.log, "cuda")
               /\ PosWeights(f.log) < last
               /\ Pos(f.log, "cuda") < last
               /\ last <= Pos(f.log, "eval")
               /\ IF f.model_config.load_format = "dummy"
                  THEN Pos(f.log, "cuda") < PosWeights(f.log)
                  ELSE PosWeights(f.log) < Pos(f.log, "cuda")
               /\ f.result.weights # "empty" /\ f.result.device = "cuda"

C13_Witness ==
    \E t \in Threads :
        /\ frame[t].pc = "returned"
        /\ frame[t].model_config.load_format = "dummy"
        /\ frame[t].model_config.quantization = "awq"
        /\ Pos(frame[t].log, "cuda") < Pos(frame[t].log, "initialize_dummy_weights")

\* C14: whenever the dummy initializer was invoked the module had been
\* placed on the device before, and the module it fills is on the device;
\* whenever a module of the from-source path was placed on the device,
\* load_weights had been invoked before with (model, download_dir,
\* load_format, revision), and while it loads the module is on the host.
C14_SubStepOrderByPath ==
    \A t \in Threads :
        LET f == frame[t]
            c == f.model_config
        IN  f.pc # "idle"
            => IF c.load_format = "dummy"
               THEN /\ Invoked(f, "initialize_dummy_weights")
                       => /\ Pos(f.log, "cuda") > 0
                          /\ Pos(f.log, "cuda") < Pos(f.log, "initialize_dummy_weights")
                    /\ (f.model # None /\ f.model.weights = "dummy")
                       => f.model.device = "cuda"
                    /\ f.pc = "initialize_dummy_weights" => f.model.device = "cuda"
               ELSE /\ Invoked(f, "cuda")
                       => /\ Pos(f.log, "load_weights") > 0
                          /\ Pos(f.log, "load_weights") < Pos(f.log, "cuda")
                    /\ (f.model # None /\ f.model.device = "cuda")
                       => /\ f.model.weights = "loaded"
                          /\ f.model.load_args =
                                <<c.model, c.download_dir, c.load_format, c.revision>>
                    /\ f.pc = "load_weights" => f.model.device = "cpu"

C14_Witness ==
    \E t \in Threads :
        /\ frame[t].pc = "quant_post_init"
        /\ frame[t].model_config.load_format = "auto"
        /\ frame[t].model.device = "cuda"
        /\ frame[t].model.load_args = <<"model", "download_dir", "auto", "revision">>

\* C15: a call without a quantization method never invokes quant_post_init;
\* a call with one invokes it only after the weights and the placement and
\* before eval, and when it returns it has invoked it exactly once, with its
\* max_tokens.
C15_PostInitIffQuantized ==
    \A t \in Threads :
        LET f == frame[t]
        IN  f.pc # "idle"
            => /\ f.model_config.quantization = "None"
                  => /\ ~Invoked(f, "quant_post_init")
                     /\ f.model # None => f.model.post_init = 0
               /\ Invoked(f, "quant_post_init")
                  => /\ PosWeights(f.log) > 0 /\ Pos(f.log, "cuda") > 0
                     /\ PosWeights(f.log) < Pos(f.log, "quant_post_init")
                     /\ Pos(f.log, "cuda") < Pos(f.log, "quant_post_init")
                     /\ Invoked(f, "eval")
                        => Pos(f.log, "quant_post_init") < Pos(f.log, "eval")
               /\ (f.pc = "returned" /\ f.model_config.quantization # "None")
                  => /\ Count(f.log, "quant_post_init") = 1
                     /\ f.result.post_init = f.max_tokens

C15_Witness ==
    \E t \in Threads :
        /\ frame[t].pc = "returned"
        /\ frame[t].model_config.quantization = "gptq"
        /\ frame[t].max_tokens = MaxTokens
        /\ frame[t].result.post_init = MaxTokens

\* The statements at which an unquantized call may fail according to C16:
\* architecture resolution, construction, weight materialization and device
\* placement.
C16_FailurePoints ==
    {"resolve", "construct", "cuda_dummy", "initialize_dummy_weights",
     "load_weights", "cuda_loaded"}

\* What C16 says of a call without a quantization method, its failure points
\* being `points`: no get_quant_config, no capability probe, no quant_config,
\* a module built by the one-argument constructor, and no failure but at
\* one of the points.
C16_NoOpValidation(points) ==
    \A t \in Threads :
        LET f == frame[t]
        IN  (f.pc # "idle" /\ f.model_config.quantization = "None")
            => /\ ~Invoked(f, "get_quant_config")
               /\ ~Invoked(f, "get_device_capability")
               /\ f.quant_config = None /\ ~Probed(f)
               /\ ~Invoked(f, "model_class(hf_config, quant_config)")
               /\ f.model # None
                  => /\ Invoked(f, "model_class(hf_config)")
                     /\ f.model.quant_config = None
                     /\ f.model.hf_config = f.model_config.hf_config
               /\ f.pc = "raised"
                  => /\ f.raised_at \in points
                     /\ f.error.kind \notin
                           {"InsufficientHardwareCapability",
                            "UnsupportedDtypeForQuantization",
                            "UnsupportedQuantizationForArchitecture"}

\* C16 as claimed: an unquantized call skips the validation and can fail
\* only in architecture resolution, construction, weight materialization or
\* device placement.
C16_UnquantizedFailsOnlyLate == C16_NoOpValidation(C16_FailurePoints)

\* C16 as amended: the same, the call failing also when
\* torch.set_default_dtype rejects the dtype on opening the dtype scope.
C16_UnquantizedSkipsValidation ==
    C16_NoOpValidation(C16_FailurePoints \cup {"set_default_dtype"})

C16_Witness ==
    \E t \in Threads :
        /\ frame[t].pc = "raised"
        /\ frame[t].model_config.quantization = "None"
        /\ frame[t].raised_at = "set_default_dtype"
        /\ frame[t].log = <<"resolve", "get_default_dtype", "set_default_dtype">>

C16_WitnessReturned ==
    \E t \in Threads :
        /\ frame[t].pc = "returned"
        /\ frame[t].model_config.quantization = "None"
        /\ frame[t].result.quant_config = None

\* C17: the checks are made in the order resolution, method support,
\* get_quant_config, capability, dtype, and the first one violated ends the
\* call: a finished call that violates several fails with the error of the
\* earliest, and the checks and collaborators after it were not evaluated.
C17_FailFastOrder ==
    \A t \in Threads :
        LET f == frame[t]
            c == f.model_config
            resolved == ~NoRegisteredName(GetArchitectures(c.hf_config))
            listed == c.quantization \in DOMAIN MODEL_CLASSES_SUPPORT_QUANTIZATION
            lowcap == Scalar(f) < f.quant_config.min_capability
        IN  Finished(f)
            => /\ Pos(f.log, "resolve") = 1
               /\ Invoked(f, "get_quant_config") => Pos(f.log, "get_quant_config") = 2
               /\ Invoked(f, "get_device_capability")
                  => /\ Pos(f.log, "get_quant_config") = 2
                     /\ Pos(f.log, "get_device_capability") = 3
               /\ Invoked(f, "get_default_dtype")
                  => Pos(f.log, "get_default_dtype")
                        = (IF c.quantization = "None" THEN 2 ELSE 4)
               /\ ~resolved => Failed(f, "UnsupportedArchitecture") /\ Len(f.log) = 1
               /\ (resolved /\ listed /\ f.model_class \notin SupportSet(c.quantization))
                  => /\ Failed(f, "UnsupportedQuantizationForArchitecture")
                     /\ Len(f.log) = 1
               /\ Failed(f, "QuantConfigFailure") => Len(f.log) = 2
               /\ (f.quant_config # None /\ Probed(f) /\ lowcap)
                  => /\ Failed(f, "InsufficientHardwareCapability")
                     /\ f.supported_dtypes = {}
                     /\ Len(f.log) = 3
               /\ Failed(f, "UnsupportedDtypeForQuantization")
                  => /\ f.model_class \in SupportSet(c.quantization)
                     /\ Probed(f) /\ ~lowcap
                     /\ Len(f.log) = 3

C17_Witness ==
    \E t \in Threads :
        LET f == frame[t]
        IN  /\ Failed(f, "InsufficientHardwareCapability")
            /\ f.model_config.dtype \notin f.quant_config.supported_act_dtypes
            /\ f.model_config.dtype = "float32"

\* The statements before the with statement of line 81 and the two of its
\* entry, up to the one that installs the dtype.
BeforeOverride ==
    {"resolve", "quant_support", "get_quant_config", "get_capability",
     "check_capability", "check_dtype", "get_default_dtype",
     "set_default_dtype"}

\* C18: while a call is in steps 1-2 or about to install its dtype the
\* default dtype is the one of its entry; the module is constructed while
\* the default is the call's dtype; and once the call is out of the with
\* block, by its end or by an exception, the default is again the one of
\* its entry.
C18_OverrideScoped ==
    \A t \in Threads :
        LET f == frame[t]
        IN  /\ f.pc \in BeforeOverride => default_dtype = f.entry_dtype
            /\ f.pc = "construct" => default_dtype = f.model_config.dtype
            /\ f.model # None => f.model.param_dtype = f.model_config.dtype
            /\ f.pc \in {"eval", "returned", "raised"}
               => default_dtype = f.entry_dtype

\* Both threads have called and one call was over when the other began.
Serialized ==
    \E t \in Threads : \E u \in Threads \ {t} : u \in frame[t].started_after

\* A module was constructed while the default dtype was not its call's.
ConstructedUnderOtherDtype(t) ==
    /\ frame[t].model # None
    /\ frame[t].model.param_dtype # frame[t].model_config.dtype

\* Both calls returned a module and the default dtype is not what it was
\* when one of them began.
DefaultChangedAfterBoth ==
    /\ \A t \in Threads : frame[t].pc = "returned"
    /\ \E t \in Threads : default_dtype # frame[t].entry_dtype

\* C19: a module constructed under a dtype that is not its call's, or a
\* default dtype changed after both calls returned, occurs only when the two
\* calls overlapped, never when one was over before the other began.
C19_UnsafeOnlyWhenInterleaved ==
    ((\E t \in Threads : ConstructedUnderOtherDtype(t)) \/ DefaultChangedAfterBoth)
    => /\ \A t \in Threads : frame[t].pc # "idle"
       /\ ~Serialized

\* Interleaved, a call has constructed its module under the other call's
\* dtype, different from its own.
C19_Witness ==
    \E t \in Threads : \E u \in Threads \ {t} :
        /\ frame[t].model # None
        /\ frame[u].pc # "idle"
        /\ frame[t].model_config.dtype # frame[u].model_config.dtype
        /\ frame[t].model.param_dtype = frame[u].model_config.dtype

\* Interleaved, both calls returned and the default is not the initial one.
C19_WitnessFinal ==
    /\ DefaultChangedAfterBoth
    /\ frame["t1"].model_config.dtype # frame["t2"].model_config.dtype
    /\ frame["t1"].entry_dtype = frame["t2"].entry_dtype

\* Serialized, both calls returned.
C19_WitnessSerial ==
    /\ Serialized
    /\ \A t \in Threads : frame[t].pc = "returned"
    /\ frame["t1"].model_config.dtype # frame["t2"].model_config.dtype

\* C20: when the constructor is reached with a method configured, the class
\* is in the method's support set and the quant_config is not None; the
\* one-argument constructor is invoked only without a method and the
\* two-argument one only with a method; a module without a quant_config
\* never receives quant_post_init.
C20_ConstructorByQuantization ==
    \A t \in Threads :
        LET f == frame[t]
            q == f.model_config.quantization
        IN  f.pc # "idle"
            => /\ (f.pc = "construct" /\ q # "None")
                  => /\ q \in DOMAIN MODEL_CLASSES_SUPPORT_QUANTIZATION
                     /\ f.model_class \in SupportSet(q)
                     /\ f.quant_config # None
               /\ Invoked(f, "model_class(hf_config)") => q = "None"
               /\ Invoked(f, "model_class(hf_config, quant_config)")
                  => q # "None" /\ f.quant_config # None
               /\ f.model # None
                  => /\ (f.model.quant_config = None) <=> (q = "None")
                     /\ f.model.quant_config = None
                        => /\ ~Invoked(f, "quant_post_init")
                           /\ f.model.post_init = 0

C20_Witness ==
    \E t \in Threads :
        /\ frame[t].pc = "returned"
        /\ frame[t].model_config.quantization = "gptq"
        /\ frame[t].model_class = GPTJForCausalLM
        /\ Invoked(frame[t], "model_class(hf_config, quant_config)")
        /\ frame[t].result.quant_config # None

====
